---- MODULE Spec2Model ----
(***************************************************************************)
(* Candidate relevance scoring of apps/api/src/services/scoring.ts.        *)
(*                                                                         *)
(* Strings are TLA+ strings; a character is a string of length 1.  Scores  *)
(* are exact rationals in thousandths (1000 is 1.0), so that every weight  *)
(* of the source (0.05 .. 0.8) and every ratio matches/total it multiplies *)
(* is represented without rounding.                                        *)
(***************************************************************************)
EXTENDS Integers, Sequences, FiniteSets, TLC

\* ------------------------------------------------------------------ bounds

\* Longest candidate list handed to a scoring entry point.
MaxCands == 2

\* Most requests POST /webhooks/agentmail gets in a run.
MaxHooks == 1

\* Most requests POST /email/send gets in a run.
MaxSends == 1

\* ---------------------------------------------------------- JavaScript values

\* The value of an optional field that is absent (JavaScript undefined).
Undefined == "<undefined>"

\* !a on a string-or-undefined value: undefined and '' are falsy.
Falsy(a) == a = Undefined \/ a = ""

\* a || b on string-or-undefined values.
Or(a, b) == IF Falsy(a) THEN b ELSE a

Char(s, i) == SubSeq(s, i, i)

UpperLetters == "ABCDEFGHIJKLMNOPQRSTUVWXYZ"
LowerLetters == "abcdefghijklmnopqrstuvwxyz"
Digits == "0123456789"

CharsOf(s) == {Char(s, i) : i \in 1..Len(s)}

UpperSet == CharsOf(UpperLetters)
LowerSet == CharsOf(LowerLetters)
DigitSet == CharsOf(Digits)

\* String.prototype.toLowerCase on one character.
LowerChar ==
  [c \in UpperSet |->
     Char(LowerLetters, CHOOSE i \in 1..26 : Char(UpperLetters, i) = c)]

\* String.prototype.toLowerCase, character by character (the string is halved
\* to keep the nesting of the evaluation shallow).
RECURSIVE ToLowerCase(_)
ToLowerCase(s) ==
  IF Len(s) = 0 THEN ""
  ELSE IF Len(s) = 1 THEN (IF s \in UpperSet THEN LowerChar[s] ELSE s)
  ELSE ToLowerCase(SubSeq(s, 1, Len(s) \div 2))
         \o ToLowerCase(SubSeq(s, Len(s) \div 2 + 1, Len(s)))

\* String.prototype.includes: '' is included in every string.
Includes(text, part) ==
  \E i \in 0..(Len(text) - Len(part)) : SubSeq(text, i + 1, i + Len(part)) = part

\* \s of the regular expressions, on the characters the inputs are made of.
IsSpace(c) == c = " "

RECURSIVE TrimStart(_)
TrimStart(s) ==
  IF Len(s) > 0 /\ IsSpace(Char(s, 1)) THEN TrimStart(SubSeq(s, 2, Len(s))) ELSE s

RECURSIVE TrimEnd(_)
TrimEnd(s) ==
  IF Len(s) > 0 /\ IsSpace(Char(s, Len(s))) THEN TrimEnd(SubSeq(s, 1, Len(s) - 1))
  ELSE s

\* String.prototype.trim.
Trim(s) == TrimEnd(TrimStart(s))

\* textContains(a, b): false when either side is undefined or ''.
textContains(a, b) ==
  IF Falsy(a) \/ Falsy(b) THEN FALSE
  ELSE Includes(ToLowerCase(a), ToLowerCase(b))

\* ------------------------------------------------------- regular expressions

\* \w : [A-Za-z0-9_].
IsWordChar(c) == c \in UpperSet \/ c \in LowerSet \/ c \in DigitSet \/ c = "_"

\* The class [A-Za-z0-9\-\.& ] of the company pattern.
CompanyChars == UpperSet \cup LowerSet \cup DigitSet \cup {"-", ".", "&", " "}

\* The class [A-Za-z\s,] of the location pattern.
LocationChars == UpperSet \cup LowerSet \cup {" ", ","}

\* Length of the longest run of white space of s that starts at position i.
RECURSIVE SpaceRun(_, _)
SpaceRun(s, i) ==
  IF i <= Len(s) /\ IsSpace(Char(s, i)) THEN 1 + SpaceRun(s, i + 1) ELSE 0

\* Length of the longest run of characters of the class that starts at i.
RECURSIVE ClassRun(_, _, _)
ClassRun(class, s, i) ==
  IF i <= Len(s) /\ Char(s, i) \in class THEN 1 + ClassRun(class, s, i + 1) ELSE 0

\* /kw\s+([class]+)/i matched with kw at position i of s: \s+ is greedy and gives
\* white space back only while the group would otherwise be empty.  The set of
\* the numbers w of white-space characters with which the match succeeds.
SpaceChoices(class, s, i) ==
  {w \in 1..SpaceRun(s, i + 2) : ClassRun(class, s, i + 2 + w) >= 1}

MatchesAt(kw, class, s, i) ==
  /\ i + 1 <= Len(s)
  /\ ToLowerCase(SubSeq(s, i, i + 1)) = kw
  /\ SpaceChoices(class, s, i) # {}

Max(S) == CHOOSE m \in S : \A n \in S : n <= m
Min(S) == CHOOSE m \in S : \A n \in S : m <= n

\* /kw\s+([class]+)/i.exec(s)?.[1]?.trim(): the group of the leftmost match,
\* trimmed; undefined when the pattern matches nowhere.
ExecGroupTrim(kw, class, s) ==
  LET starts == {i \in 1..Len(s) : MatchesAt(kw, class, s, i)} IN
  IF starts = {} THEN Undefined
  ELSE LET i == Min(starts)
           w == Max(SpaceChoices(class, s, i))
           from == i + 2 + w
       IN Trim(SubSeq(s, from, from + ClassRun(class, s, from) - 1))

\* String.prototype.split(/\W+/): the pieces between the maximal runs of
\* non-word characters; a run at either end leaves an empty piece there.
RECURSIVE SplitFrom(_, _, _)
SplitFrom(s, i, cur) ==
  IF i > Len(s) THEN <<cur>>
  ELSE IF IsWordChar(Char(s, i)) THEN SplitFrom(s, i + 1, cur \o Char(s, i))
  ELSE IF i > 1 /\ ~IsWordChar(Char(s, i - 1)) THEN SplitFrom(s, i + 1, cur)
  ELSE <<cur>> \o SplitFrom(s, i + 1, "")

SplitNonWord(s) == SplitFrom(s, 1, "")

\* Array.prototype.slice(0, n).
SliceTo(seq, n) == SubSeq(seq, 1, IF Len(seq) < n THEN Len(seq) ELSE n)


\* ------------------------------------------------------------------ numbers

\* A score is an exact rational number of thousandths, num / den with den > 0,
\* in lowest terms: 1.0 is [num |-> 1000, den |-> 1].
RECURSIVE GCD(_, _)
GCD(a, b) == IF b = 0 THEN a ELSE GCD(b, a % b)

Rat(n, d) ==
  LET g == GCD(n, d) IN
  IF n = 0 THEN [num |-> 0, den |-> 1] ELSE [num |-> n \div g, den |-> d \div g]

Th(n) == Rat(n, 1)

\* A score field that is absent (den = 0: no number).
NoScore == [num |-> 0, den |-> 0]

RAdd(a, b) == Rat(a.num * b.den + b.num * a.den, a.den * b.den)

RLeq(a, b) == a.num * b.den <= b.num * a.den

RLess(a, b) == a.num * b.den < b.num * a.den

\* Math.min and Math.max.
RMin(a, b) == IF RLeq(a, b) THEN a ELSE b
RMax(a, b) == IF RLeq(a, b) THEN b ELSE a

\* weight * (n / d), weight in thousandths.
RScale(weight, n, d) == Rat(weight * n, d)

\* Number(score.toFixed(3)) of a score >= 0: the nearest thousandth, a half
\* going up.
ToFixed3(a) == Th((2 * a.num + a.den) \div (2 * a.den))

\* Math.max(0, Math.min(1.0, score)).
\* (Variant: Math.max alone, no ceiling.)
ClampMutNoCeiling(score) == RMax(Th(0), score)
Clamp(score) == RMax(Th(0), RMin(Th(1000), score))

\* ------------------------------------------------------------ intent parsing

roleHints ==
  << "engineer", "software", "swe", "data", "ml", "ai", "product", "pm",
     "designer", "manager", "director", "lead", "senior", "principal",
     "architect", "developer", "analyst", "scientist" >>

roleHintsSync ==
  << "engineer", "software", "swe", "data", "ml", "ai", "product", "pm", "designer" >>

\* hints.find((h) => textContains(intent, h)).
\* (Variant: the hint that occurs earliest in the intent.)
FindRoleMutByPosition(hints, int) ==
  LET low == ToLowerCase(Or(int, ""))
      At(h) == Min({i \in 1..(Len(low) - Len(h) + 1) : SubSeq(low, i, i + Len(h) - 1) = h})
      hits == {i \in 1..Len(hints) : textContains(int, hints[i])}
  IN IF hits = {} THEN Undefined
     ELSE hints[CHOOSE i \in hits :
                  \A j \in hits : At(hints[i]) < At(hints[j])
                                    \/ (At(hints[i]) = At(hints[j]) /\ i <= j)]
FindRole(hints, int) ==
  LET hits == {i \in 1..Len(hints) : textContains(int, hints[i])} IN
  IF hits = {} THEN Undefined ELSE hints[Min(hits)]

\* /at\s+([A-Za-z0-9\-\.& ]+)/i.exec(intent || '')?.[1]?.trim()
IntentCompany(int) == ExecGroupTrim("at", CompanyChars, Or(int, ""))

\* /in\s+([A-Za-z\s,]+)/i.exec(intent || '')?.[1]?.trim()
IntentLocation(int) == ExecGroupTrim("in", LocationChars, Or(int, ""))

IsKeyword(w) == Len(w) > 3 /\ w \notin {"find", "contacts", "with", "from"}

\* intent.toLowerCase().split(/\W+/).filter(...).slice(0, 8)
IntentKeywords(int) == SliceTo(SelectSeq(SplitNonWord(ToLowerCase(int)), IsKeyword), 8)

LongerThan3(w) == Len(w) > 3

\* intent.split(/\W+/).filter((w) => w.length > 3).slice(0, 5)
IntentWordsSync(int) == SliceTo(SelectSeq(SplitNonWord(int), LongerThan3), 5)

\* ------------------------------------------------------------ alumni matching

umichiIndicators ==
  << "university of michigan", "u of m", "umich", "michigan ann arbor", "ann arbor" >>

excludeIndicators ==
  << "michigan state", "michigan tech", "western michigan", "eastern michigan",
     "central michigan" >>

\* array.some((x) => text.includes(x))
SomeIncluded(text, array) == \E i \in 1..Len(array) : Includes(text, array[i])

\* isMichiganAlumni() on schoolsText.
\* (Variant: any text with 'michigan' in it passes.)
isMichiganAlumniMutNaive(text) == Includes(text, "michigan")
isMichiganAlumni(text) ==
  IF SomeIncluded(text, excludeIndicators) THEN FALSE
  ELSE SomeIncluded(text, umichiIndicators)

\* The own keys of the schoolVariations object literal.
VariationKeys ==
  { "university of michigan", "stanford university",
    "massachusetts institute of technology", "university of california berkeley",
    "harvard university", "princeton university", "yale university",
    "columbia university", "university of pennsylvania", "cornell university",
    "dartmouth college", "brown university" }

schoolVariations ==
  [k \in VariationKeys |->
     CASE k = "university of michigan" -> << "u of m", "umich", "michigan ann arbor" >>
       [] k = "stanford university" -> << "stanford" >>
       [] k = "massachusetts institute of technology" -> << "mit" >>
       [] k = "university of california berkeley" -> << "uc berkeley", "cal berkeley" >>
       [] k = "harvard university" -> << "harvard" >>
       [] k = "princeton university" -> << "princeton" >>
       [] k = "yale university" -> << "yale" >>
       [] k = "columbia university" -> << "columbia" >>
       [] k = "university of pennsylvania" -> << "upenn" >>
       [] k = "cornell university" -> << "cornell" >>
       [] k = "dartmouth college" -> << "dartmouth" >>
       [] k = "brown university" -> << "brown" >>]

\* The lower-case keys every object literal inherits from Object.prototype:
\* schoolVariations[k] is then a function or an object without a method some,
\* so that schoolVariations[k].some(...) throws a TypeError.
InheritedKeys == {"constructor", "__proto__"}

Range(seq) == {seq[i] : i \in 1..Len(seq)}

\* matchesSchool(candidateText, schoolName): "true", "false", or "TypeError"
\* when the call throws.
matchesSchool(candidateText, schoolName) ==
  LET school == Trim(ToLowerCase(schoolName))
      text == ToLowerCase(candidateText)
  IN IF Includes(text, school) THEN "true"
     ELSE IF school \in VariationKeys
       THEN (IF SomeIncluded(text, schoolVariations[school]) THEN "true" ELSE "false")
     ELSE IF school \in InheritedKeys THEN "TypeError"
     ELSE IF \E k \in VariationKeys :
               school \in Range(schoolVariations[k]) /\ Includes(text, k)
       THEN "true"
     ELSE "false"


\* ------------------------------------------------- fallbackScoring, per candidate

\* (c.schools || c.summary || '').toLowerCase()
SchoolsText(c) == ToLowerCase(Or(Or(c.schools, c.summary), ""))

\* The loop over user.schools of the ordinary alumni branch: the first entry at
\* which matchesSchool throws, or matches while schoolsText does not include
\* 'michigan state', ends it.  0 when the loop runs through.
AlumniLoopStop(usr, text) ==
  LET stops ==
        {i \in 1..Len(usr.schools) :
           LET m == matchesSchool(text, usr.schools[i]) IN
           m = "TypeError" \/ (m = "true" /\ ~Includes(text, "michigan state"))}
  IN IF stops = {} THEN 0 ELSE Min(stops)

\* Lines 137-157: what the alumni block adds to the score, the line it logs,
\* and whether it throws.
\* (Variant: the elite branch forgets the bonus.)
AlumniBlockMutNoBonus(usr, c) ==
  LET text == SchoolsText(c) IN
  IF isMichiganAlumni(text)
    THEN [threw |-> FALSE, add |-> Th(800),
          log |-> << [tag |-> "MICHIGAN ALUMNI", name |-> c.name, school |-> ""] >>]
  ELSE LET i == AlumniLoopStop(usr, text) IN
    IF i = 0 THEN [threw |-> FALSE, add |-> Th(0), log |-> << >>]
    ELSE IF matchesSchool(text, usr.schools[i]) = "TypeError"
      THEN [threw |-> TRUE, add |-> Th(0), log |-> << >>]
    ELSE [threw |-> FALSE, add |-> Th(600 + 200),
          log |-> << [tag |-> "ALUMNI MATCH", name |-> c.name,
                      school |-> usr.schools[i]] >>]
AlumniBlock(usr, c) ==
  LET text == SchoolsText(c) IN
  IF isMichiganAlumni(text)
    THEN [threw |-> FALSE, add |-> Th(800 + 200),
          log |-> << [tag |-> "MICHIGAN ALUMNI", name |-> c.name, school |-> ""] >>]
  ELSE LET i == AlumniLoopStop(usr, text) IN
    IF i = 0 THEN [threw |-> FALSE, add |-> Th(0), log |-> << >>]
    ELSE IF matchesSchool(text, usr.schools[i]) = "TypeError"
      THEN [threw |-> TRUE, add |-> Th(0), log |-> << >>]
    ELSE [threw |-> FALSE, add |-> Th(600 + 200),
          log |-> << [tag |-> "ALUMNI MATCH", name |-> c.name,
                      school |-> usr.schools[i]] >>]

roleSynonymKeys == {"engineer", "software", "manager", "product", "data"}

roleSynonyms ==
  [k \in roleSynonymKeys |->
     CASE k = "engineer" -> << "developer", "dev", "programmer", "architect" >>
       [] k = "software" -> << "swe", "dev", "developer", "programming" >>
       [] k = "manager" -> << "lead", "director", "head" >>
       [] k = "product" -> << "pm", "product manager" >>
       [] k = "data" -> << "analyst", "scientist", "ml", "ai" >>]

\* array.some((x) => textContains(text, x))
SomeContained(text, array) == \E i \in 1..Len(array) : textContains(text, array[i])

\* Lines 159-181: role / title similarity.
\* (Variant: the loop over the synonyms has no break.)
RoleBlockMutEverySynonym(intentRole, c) ==
  IF Falsy(intentRole) \/ Falsy(c.title) THEN Th(0)
  ELSE RAdd(IF textContains(c.title, intentRole) THEN Th(300) ELSE Th(0),
            IF intentRole \in roleSynonymKeys
              THEN Th(200 * Cardinality({i \in 1..Len(roleSynonyms[intentRole]) :
                                          textContains(c.title, roleSynonyms[intentRole][i])}))
            ELSE Th(0))
RoleBlock(intentRole, c) ==
  IF Falsy(intentRole) \/ Falsy(c.title) THEN Th(0)
  ELSE RAdd(IF textContains(c.title, intentRole) THEN Th(300) ELSE Th(0),
            IF intentRole \in roleSynonymKeys
               /\ SomeContained(c.title, roleSynonyms[intentRole])
              THEN Th(200) ELSE Th(0))

\* Lines 183-186.
CompanyBlock(intentCompanyMatch, c) ==
  IF ~Falsy(intentCompanyMatch) /\ ~Falsy(c.company)
     /\ textContains(c.company, intentCompanyMatch)
    THEN Th(250) ELSE Th(0)

\* Lines 188-191.
LocationBlock(intentLocation, c) ==
  IF ~Falsy(intentLocation) /\ ~Falsy(c.location)
     /\ textContains(c.location, intentLocation)
    THEN Th(150) ELSE Th(0)

\* Lines 193-211: summary keyword overlap.
\* (Variant: 0.2 for every keyword found, not divided by the number of keywords.)
KeywordBlockMutPerMatch(intentKeywords, c) ==
  LET summaryText == ToLowerCase(Or(c.summary, ""))
      keywordMatches ==
        Cardinality({i \in 1..Len(intentKeywords) : Includes(summaryText, intentKeywords[i])})
  IN IF keywordMatches > 0 THEN RMin(Th(200), Th(200 * keywordMatches)) ELSE Th(0)
KeywordBlock(intentKeywords, c) ==
  LET summaryText == ToLowerCase(Or(c.summary, ""))
      keywordMatches ==
        Cardinality({i \in 1..Len(intentKeywords) : Includes(summaryText, intentKeywords[i])})
  IN IF keywordMatches > 0
       THEN RMin(Th(200), RScale(200, keywordMatches, Len(intentKeywords)))
     ELSE Th(0)

\* Lines 213-227: skills overlap.
SkillsBlock(usr, c) ==
  LET candidateSkillsText == Or(Or(c.skills, c.summary), "")
      userSkills == usr.skills
      skillMatches ==
        Cardinality({i \in 1..Len(userSkills) : textContains(candidateSkillsText, userSkills[i])})
  IN IF skillMatches > 0
       THEN RMin(Th(200),
                 RScale(200, skillMatches, IF Len(userSkills) < 1 THEN 1 ELSE Len(userSkills)))
     ELSE Th(0)

\* Lines 229-237: past-company affinity.
AffinityBlock(weight, usr, c) ==
  IF Len(usr.companies) > 0 /\ ~Falsy(c.company)
     /\ SomeContained(c.company, usr.companies)
    THEN Th(weight) ELSE Th(0)

seniorityKeywords ==
  << "senior", "lead", "principal", "staff", "manager", "director", "vp", "chief" >>

\* Lines 239-243.
SeniorityBlock(c) ==
  IF ~Falsy(c.title) /\ SomeContained(c.title, seniorityKeywords) THEN Th(100) ELSE Th(0)

\* Lines 245-255: profile completeness.
CompletenessBlock(c) ==
  Th((IF ~Falsy(c.summary) /\ Len(c.summary) > 50 THEN 50 ELSE 0)
     + (IF ~Falsy(c.email) THEN 50 ELSE 0)
     + (IF ~Falsy(c.linkedinUrl) THEN 50 ELSE 0)
     + (IF ~Falsy(c.schools) THEN 50 ELSE 0)
     + (IF ~Falsy(c.skills) THEN 50 ELSE 0))

\* Lines 51-59 and 194-198: what fallbackScoring reads off the intent.  (The
\* source builds intentKeywords anew in every callback; it depends on the
\* intent alone.)
ParseIntent(int) ==
  [role |-> FindRole(roleHints, int),
   company |-> IntentCompany(int),
   location |-> IntentLocation(int),
   keywords |-> IntentKeywords(int)]

\* The sum of the contributions of lines 62-255, before the clamp.
RawScore(usr, parsed, c) ==
  RAdd(AlumniBlock(usr, c).add,
  RAdd(RoleBlock(parsed.role, c),
  RAdd(CompanyBlock(parsed.company, c),
  RAdd(LocationBlock(parsed.location, c),
  RAdd(KeywordBlock(parsed.keywords, c),
  RAdd(SkillsBlock(usr, c),
  RAdd(AffinityBlock(150, usr, c),
  RAdd(SeniorityBlock(c), CompletenessBlock(c)))))))))

\* { ...c, score }: a new object, every field of c but score copied.
WithScore(c, score) == [c EXCEPT !.score = score]

\* The callback of candidates.map in fallbackScoring: the new object, the lines
\* it logs, and whether it throws.
Scored(c, a, raw) ==
  [threw |-> a.threw, obj |-> WithScore(c, ToFixed3(Clamp(raw))), log |-> a.log]

FallbackOne(usr, parsed, c) == Scored(c, AlumniBlock(usr, c), RawScore(usr, parsed, c))

\* candidates.map(callback): the callback's outcome on every element.
\* (Variant: isAlumni is declared outside the callback, so the alumni bonus
\* of one element carries over to the elements after it.)
FallbackAllMutSharedFlag(usr, parsed, cands) ==
  [i \in 1..Len(cands) |->
     Scored(cands[i], AlumniBlock(usr, cands[i]),
            RAdd(RawScore(usr, parsed, cands[i]),
                 IF /\ AlumniBlock(usr, cands[i]).add = Th(0)
                    /\ \E j \in 1..(i - 1) : AlumniBlock(usr, cands[j]).add # Th(0)
                   THEN Th(200) ELSE Th(0)))]
FallbackAll(usr, parsed, cands) ==
  [i \in 1..Len(cands) |-> FallbackOne(usr, parsed, cands[i])]


\* ------------------------------------- scoreCandidatesSync and the older variant

\* tokenOverlap(a, b): |A n B| / max(1, |A u B|) on the lower-cased sets.
tokenOverlap(a, b) ==
  LET A == {ToLowerCase(a[i]) : i \in 1..Len(a)}
      B == {ToLowerCase(b[i]) : i \in 1..Len(b)}
      inter == Cardinality(A \cap B)
      denom == IF Cardinality(A) + Cardinality(B) - inter < 1 THEN 1
               ELSE Cardinality(A) + Cardinality(B) - inter
  IN Rat(inter, denom)

\* Role and company contributions of the two older bodies (no guard on c.title
\* or c.company: textContains does it).
RoleBlockSync(intentRole, c) ==
  IF ~Falsy(intentRole) /\ textContains(c.title, intentRole) THEN Th(300) ELSE Th(0)

CompanyBlockSync(intentCompanyMatch, c) ==
  IF ~Falsy(intentCompanyMatch) /\ textContains(c.company, intentCompanyMatch)
    THEN Th(250) ELSE Th(0)

\* sumHit: some of the first five long words of the intent is in the summary.
SummaryBlockSync(words, c) ==
  IF SomeContained(c.summary, words) THEN Th(150) ELSE Th(0)

\* Math.min(0.15, skillsOverlap * 0.15) when skillsOverlap > 0.
SkillsBlockSync(usr, c) ==
  LET skillsOverlap ==
        tokenOverlap(usr.skills, SplitNonWord(ToLowerCase(Or(c.summary, ""))))
  IN IF skillsOverlap.num > 0
       THEN RMin(Th(150), RScale(150, skillsOverlap.num, skillsOverlap.den))
     ELSE Th(0)

\* Lines 320-342: the alumni block of scoreCandidatesSync.
AlumniBlockSync(usr, c) ==
  LET text == SchoolsText(c) IN
  IF isMichiganAlumni(text) THEN Th(800)
  ELSE IF Len(usr.schools) > 0
          /\ SomeContained(text, usr.schools) /\ ~Includes(text, "michigan state")
    THEN Th(600)
  ELSE Th(0)

\* Lines 436-445: the alumni block of the older scoreCandidates.
AlumniBlockOld(usr, c) ==
  IF \E i \in 1..Len(usr.schools) :
       textContains(c.summary, usr.schools[i]) \/ textContains(c.company, usr.schools[i])
    THEN Th(100) ELSE Th(0)

\* Lines 287-289 and 305-308 (and 398-400, 419-422): what the two older bodies
\* read off the intent.
ParseIntentSync(int) ==
  [role |-> FindRole(roleHintsSync, int),
   company |-> IntentCompany(int),
   words |-> IntentWordsSync(int)]

\* The callback of candidates.map in scoreCandidatesSync.
SyncOne(usr, parsed, c) ==
  WithScore(c,
    Clamp(RAdd(RoleBlockSync(parsed.role, c),
          RAdd(CompanyBlockSync(parsed.company, c),
          RAdd(SummaryBlockSync(parsed.words, c),
          RAdd(SkillsBlockSync(usr, c),
          RAdd(AlumniBlockSync(usr, c), AffinityBlock(100, usr, c))))))))

\* reasons.push(reason) next to a score += add.
ReasonIf(add, reason) == IF RLess(Th(0), add) THEN <<reason>> ELSE << >>

\* { ...c, score, reasons } of the older scoreCandidates.
WithScoreReasons(c, role, company, summary, skills, alumni, affinity) ==
  [c EXCEPT
     !.score = Clamp(RAdd(role, RAdd(company, RAdd(summary,
                     RAdd(skills, RAdd(alumni, affinity)))))),
     !.reasons = ReasonIf(role, "role-match") \o ReasonIf(company, "company-match")
                 \o ReasonIf(summary, "summary-overlap")
                 \o ReasonIf(skills, "skills-overlap")
                 \o ReasonIf(alumni, "alumni-affinity")
                 \o ReasonIf(affinity, "company-affinity")]

\* The callback of candidates.map in the older scoreCandidates.
OldOne(usr, parsed, c) ==
  WithScoreReasons(c, RoleBlockSync(parsed.role, c),
    CompanyBlockSync(parsed.company, c), SummaryBlockSync(parsed.words, c),
    SkillsBlockSync(usr, c), AlumniBlockOld(usr, c), AffinityBlock(100, usr, c))

\* ------------------------------------------------------------- map and sort

\* Array.prototype.sort((a, b) => (b.score || 0) - (a.score || 0)) is stable
\* (ECMAScript 2019): an element goes behind every element already placed whose
\* score is not smaller.
\* (Variant: an element goes before those of equal score.)
InsertDescMutUnstable(sorted, e) ==
  LET before == {i \in 1..Len(sorted) : RLess(e.score, sorted[i].score)}
      k == IF before = {} THEN 0 ELSE Max(before)
  IN SubSeq(sorted, 1, k) \o <<e>> \o SubSeq(sorted, k + 1, Len(sorted))
InsertDesc(sorted, e) ==
  LET before == {i \in 1..Len(sorted) : RLeq(e.score, sorted[i].score)}
      k == IF before = {} THEN 0 ELSE Max(before)
  IN SubSeq(sorted, 1, k) \o <<e>> \o SubSeq(sorted, k + 1, Len(sorted))

\* The first n elements of arr, sorted.
RECURSIVE SortDescTo(_, _)
SortDescTo(arr, n) ==
  IF n = 0 THEN << >> ELSE InsertDesc(SortDescTo(arr, n - 1), arr[n])

\* (Variant: the last element of a longer array is left out.)
SortDescMutDropsLast(arr) ==
  SortDescTo(arr, IF Len(arr) > 1 THEN Len(arr) - 1 ELSE Len(arr))
SortDesc(arr) == SortDescTo(arr, Len(arr))


\* ------------------------------------------------------------------- inputs

NoFields ==
  [id |-> "0", name |-> "", title |-> Undefined, company |-> Undefined,
   email |-> Undefined, linkedinUrl |-> Undefined, location |-> Undefined,
   summary |-> Undefined, schools |-> Undefined, skills |-> Undefined,
   score |-> NoScore, reasons |-> Undefined]

\* Only id and name.
Ann == [NoFields EXCEPT !.id = "1", !.name = "Ann"]

\* Every optional field but schools.
Bo ==
  [NoFields EXCEPT !.id = "2", !.name = "Bo", !.title = "Senior Software Engineer",
     !.company = "Amazon Web Services", !.email = "bo@aws.example",
     !.linkedinUrl = "linkedin.com/in/bo", !.location = "Seattle, WA",
     !.summary = "Backend developer building data pipelines in Python and Go",
     !.skills = "Python, Go"]

\* Bo with the elite institution as schools.
BoUM == [Bo EXCEPT !.id = "3", !.schools = "University of Michigan"]

\* Bo with the elite institution and a near-miss institution as schools.
BoBoth ==
  [Bo EXCEPT !.id = "4", !.schools = "Michigan State University, University of Michigan"]

\* No schools; the summary names the elite institution.
Cy ==
  [NoFields EXCEPT !.id = "5", !.name = "Cy", !.title = "Sales Rep", !.company = "Acme",
     !.summary = "Sales at Acme, umich class of 2019"]

Di ==
  [NoFields EXCEPT !.id = "6", !.name = "Di", !.title = "Product Manager",
     !.company = "Google", !.location = "Seattle", !.schools = "Stanford University",
     !.skills = "Roadmaps"]

Ed ==
  [NoFields EXCEPT !.id = "7", !.name = "Ed", !.title = "Data Analyst",
     !.schools = "Michigan State University", !.score = Th(2000)]

Pool == {Ann, Bo, BoUM, BoBoth, Cy, Di, Ed}

\* Arrays of distinct candidates.
ListsOf(pool) ==
  UNION {{s \in [1..n -> pool] : \A i, j \in 1..n : s[i] = s[j] => i = j} :
         n \in 0..MaxCands}

CandidateLists == ListsOf(Pool)

\* A user profile; an absent list reads like an empty one (every use is
\* user.x || [] or user.x && user.x.length > 0).
User(schools, companies, skills) ==
  [schools |-> schools, companies |-> companies, skills |-> skills]

Users ==
  { User(<< >>, << >>, << >>),
    User(<<"Stanford University">>, <<"Acme">>, <<"Python", "Rust", "Go">>),
    User(<<"">>, << >>, << >>),
    User(<<" ">>, <<"Amazon">>, <<" ">>),
    User(<<"constructor", "MIT">>, << >>, <<"python">>) }

Intents ==
  { "Find SWE contacts at Amazon in Seattle",
    "",
    "Find data engineers with Python from startups" }

\* A second set of arguments, about schools: a candidate of a near-miss
\* institution other than Michigan State, a candidate with nothing but the
\* user's school, and users who went to the near-miss institutions.
Flo == [NoFields EXCEPT !.id = "8", !.name = "Flo", !.schools = "Michigan Tech"]

Al == [NoFields EXCEPT !.id = "9", !.name = "Al", !.schools = "Stanford University"]

SchoolPool == {Al, Bo, Ed, Flo}

SchoolUsers ==
  { User(<<"Michigan Tech">>, << >>, << >>),
    User(<<"Michigan State University">>, << >>, << >>),
    User(<<"Stanford University">>, <<"Amazon">>, <<"Python", "Go">>) }

SchoolIntents == { "", "Find senior engineers in Seattle" }

\* A third set of arguments, about the intent: intents of the shape
\* "<request> at <company> in <place>", with and without an earlier "in", and
\* one that ends with the company.
Shaped(request, company, place) == request \o " at " \o company \o " in " \o place

IntentRequests == { "Find SWE contacts", "Find engineers in sales" }

IntentCompanies == { "Amazon", "Google" }

IntentPlaces == { "Seattle" }

ShapedIntents ==
  { Shaped(r, c, l) : r \in IntentRequests, c \in IntentCompanies, l \in IntentPlaces }
  \cup { "Find engineers at Google" }

IntentPool == {Ann, Bo, Di}

IntentUsers == { User(<< >>, << >>, << >>), User(<<"MIT">>, <<"Acme">>, <<"Go">>) }

\* Arguments for calls that follow one another with different arrays: an
\* alumna, two candidates who are not, and a user whose school makes the
\* callback throw on some candidates.
CallPool == {Ann, BoUM, Di}

CallUsers == IntentUsers \cup { User(<<"constructor", "MIT">>, << >>, <<"python">>) }

CallIntents == { "", "Find SWE contacts at Amazon in Seattle" }

\* A fourth set of arguments, about roles and keywords: titles that hold the
\* role, a synonym of it, both or neither, and intents that name two roles,
\* no role, and more than eight keywords.
Gil ==
  [NoFields EXCEPT !.id = "10", !.name = "Gil", !.title = "Backend Developer",
     !.summary = "Builds payment pipelines in Python and Rust"]

Hal == [NoFields EXCEPT !.id = "11", !.name = "Hal", !.title = "Lead Engineer"]

RolePool == {Ann, Di, Gil, Hal}

RoleIntents ==
  { "",
    "Find a manager for product",
    "Lead Engineer wanted",
    "Find Python contacts with payment skills from startups",
    "Seek Java Ruby Perl Bash Dart Lisp Scala Julia Rust" }

\* ------------------------------------------------------------- entry points

\* candidates.map(f).sort(cmp) of fallbackScoring: map builds a new array of new
\* objects and sort reorders that array in place, so the receiver of map keeps
\* its elements in their order.  given: the receiver after the call.
\* (Variant: the receiver is reordered as well.)
MapSortMutSortsReceiver(cands, mapped) ==
  [given |-> [i \in 1..Len(cands) |->
                [SortDesc(mapped)[i] EXCEPT !.score = cands[i].score]],
   ret |-> SortDesc(mapped)]
MapSort(cands, mapped) == [given |-> cands, ret |-> SortDesc(mapped)]

\* candidates.map(f) of the older scoreCandidates: no sort follows.
MapOnly(cands, mapped) == [given |-> cands, ret |-> mapped]

\* What the first n calls of the callback logged, in order.
RECURSIVE LoggedTo(_, _)
LoggedTo(ones, n) == IF n = 0 THEN << >> ELSE LoggedTo(ones, n - 1) \o ones[n].log

\* fallbackScoring(user, intent, candidates): the callback runs on the elements
\* in order; the first one that throws rejects the promise, and what the earlier
\* ones logged stays logged.
\* (Variant: an empty array rejects.)
SettleMutRejectsEmpty(cands, thrown, ms, logged) ==
  IF thrown # {} \/ cands = << >>
    THEN [outcome |-> "threw", given |-> cands, ret |-> << >>, log |-> logged]
  ELSE [outcome |-> "returned", given |-> ms.given, ret |-> ms.ret, log |-> logged]
Settle(cands, thrown, ms, logged) ==
  IF thrown # {}
    THEN [outcome |-> "threw", given |-> cands, ret |-> << >>, log |-> logged]
  ELSE [outcome |-> "returned", given |-> ms.given, ret |-> ms.ret, log |-> logged]

MapThenSort(cands, ones, thrown, upto) ==
  Settle(cands, thrown, MapSort(cands, [i \in 1..Len(cands) |-> ones[i].obj]),
         LoggedTo(ones, upto))

FirstThrow(cands, ones, thrown) ==
  MapThenSort(cands, ones, thrown,
              IF thrown = {} THEN Len(cands) ELSE Min(thrown) - 1)

MapCallbacks(cands, ones) ==
  FirstThrow(cands, ones, {i \in 1..Len(cands) : ones[i].threw})

fallbackScoring(usr, int, cands) ==
  MapCallbacks(cands, FallbackAll(usr, ParseIntent(int), cands))

\* scoreCandidatesSync(args).
scoreCandidatesSync(usr, int, cands) ==
  LET parsed == ParseIntentSync(int)
      ms == MapSort(cands, [i \in 1..Len(cands) |-> SyncOne(usr, parsed, cands[i])])
  IN
  [outcome |-> "returned", given |-> ms.given, ret |-> ms.ret, log |-> << >>]

\* The older scoreCandidates(args) at the end of the file.
scoreCandidatesOld(usr, int, cands) ==
  LET parsed == ParseIntentSync(int)
      ms == MapOnly(cands, [i \in 1..Len(cands) |-> OldOne(usr, parsed, cands[i])])
  IN
  [outcome |-> "returned", given |-> ms.given, ret |-> ms.ret, log |-> << >>]

\* The line scoreCandidates logs before it awaits fallbackScoring.
UpdatedLine == [tag |-> "UPDATED", name |-> "", school |-> ""]

\* scoreCandidates(args): logs, then awaits fallbackScoring.
\* (Variant: a non-empty list gets scores from elsewhere, 0.1 each.)
scoreCandidatesMutOtherScorer(usr, int, cands) ==
  IF cands = << >> THEN fallbackScoring(usr, int, cands)
  ELSE [outcome |-> "returned", given |-> cands,
        ret |-> [i \in 1..Len(cands) |-> WithScore(cands[i], Th(100))],
        log |-> <<UpdatedLine>>]
scoreCandidates(usr, int, cands) ==
  LET r == fallbackScoring(usr, int, cands) IN
  [r EXCEPT !.log = <<UpdatedLine>> \o r.log]

\* -------------------------------------------------------------------- state

VARIABLES
  user,        \* args.user
  intent,      \* args.intent
  candidates,  \* args.candidates, the caller's array
  pc,          \* "idle", or how the last call ended: "returned" or "threw"
  entry,       \* the entry point last called
  result,      \* the array the last call returned
  log,         \* the console
  prev,        \* the outcome of the call before the last one, if any
  userSessions,   \* main.ts: the in-memory map sessionId -> session file
  files,          \* main.ts: the session files of the project root, as readdir lists them
  http,           \* main.ts: the request a route handler is working on, and its reply
  threads,        \* the EmailThread table
  webhookEvents,  \* the WebhookEvent table
  outbox,         \* what was handed to AgentMail for sending
  hook,           \* the webhook request POST /webhooks/agentmail is working on
  devRouting      \* process.env.DEV_EMAIL_ROUTING

scoringVars == <<user, intent, candidates, pc, entry, result, log, prev>>

serverVars ==
  <<userSessions, files, http, threads, webhookEvents, outbox, hook, devRouting>>

vars == <<scoringVars, serverVars>>

\* No request is being handled.
HttpIdle == [route |-> "none", at |-> "idle"]

\* The body of a webhook request: event.type and event.data.
Event(type, message_id, thread_id, inbox_id) ==
  [type |-> type, message_id |-> message_id, thread_id |-> thread_id, inbox_id |-> inbox_id]

\* no: the requests so far; recordId: webhookEvent.id, 0 before the record
\* exists; thread: the handler's const thread with the state it plans to
\* write; analysis: the LLM's answer; code: the status of the reply;
\* pausedBefore: the threads that were paused by the user, and PAUSED, when
\* the request came in.
HookIdle ==
  [at |-> "idle", no |-> 0, event |-> Event(Undefined, Undefined, Undefined, Undefined),
   recordId |-> 0, thread |-> [id |-> Undefined, state |-> Undefined],
   analysis |-> [thread_state |-> Undefined, auto_reply_needed |-> FALSE],
   code |-> 0, pausedBefore |-> {}]

\* The server right after start, with empty tables and no session file.
ServerIdle ==
  /\ userSessions = << >>
  /\ files = << >>
  /\ http = HttpIdle
  /\ threads = << >>
  /\ webhookEvents = << >>
  /\ outbox = << >>
  /\ hook = HookIdle
  /\ devRouting = "true"

\* Before the first call, with the arguments the caller will pass.
Start(users, intents, lists) ==
  /\ user \in users
  /\ intent \in intents
  /\ candidates \in lists
  /\ pc = "idle"
  /\ entry = "none"
  /\ result = << >>
  /\ log = << >>
  /\ prev = << >>
  /\ ServerIdle

Init == Start(Users, Intents, CandidateLists)

Outcome == [pc |-> pc, entry |-> entry, result |-> result]

\* What a call of an entry point leaves behind.
\* (Variant: the array returned depends on the console.)
FinishMutReadsConsole(name, r) ==
  /\ pc' = r.outcome
  /\ entry' = name
  /\ result' = IF log = << >> THEN r.ret ELSE << >>
  /\ candidates' = r.given
  /\ log' = log \o r.log
  /\ UNCHANGED <<user, intent>>
Finish(name, r) ==
  /\ pc' = r.outcome
  /\ entry' = name
  /\ result' = r.ret
  /\ candidates' = r.given
  /\ log' = log \o r.log
  /\ UNCHANGED <<user, intent>>

\* A call of the entry point name on the array cands.
RunOn(name, cands) ==
  CASE name = "scoreCandidates" -> Finish(name, scoreCandidates(user, intent, cands))
    [] name = "scoreCandidatesSync" -> Finish(name, scoreCandidatesSync(user, intent, cands))
    [] name = "scoreCandidatesOld" -> Finish(name, scoreCandidatesOld(user, intent, cands))

Run(name) == RunOn(name, candidates)

\* await scoreCandidates({user, intent, candidates})
CallScoreCandidates ==
  /\ pc = "idle"
  /\ Run("scoreCandidates")
  /\ UNCHANGED <<prev, serverVars>>

\* scoreCandidatesSync({user, intent, candidates})
CallScoreCandidatesSync ==
  /\ pc = "idle"
  /\ Run("scoreCandidatesSync")
  /\ UNCHANGED <<prev, serverVars>>

\* The older scoreCandidates({user, intent, candidates})
CallScoreCandidatesOld ==
  /\ pc = "idle"
  /\ Run("scoreCandidatesOld")
  /\ UNCHANGED <<prev, serverVars>>

\* The caller calls the same entry point once more with the same arguments.
CallAgain ==
  /\ pc \in {"returned", "threw"}
  /\ prev = << >>
  /\ prev' = <<Outcome>>
  /\ Run(entry)
  /\ UNCHANGED serverVars

Next ==
  \/ CallScoreCandidates
  \/ CallScoreCandidatesSync
  \/ CallScoreCandidatesOld
  \/ CallAgain

Spec == Init /\ [][Next]_vars

\* The caller calls the same entry point once more for the same user and
\* intent with another array: the same candidates in another order, among
\* others, or alone.
CallWithOthers ==
  /\ pc \in {"returned", "threw"}
  /\ prev = << >>
  /\ prev' = <<Outcome>>
  /\ \E others \in ListsOf(CallPool) : RunOn(entry, others)
  /\ UNCHANGED serverVars

NextCalls == Next \/ CallWithOthers

InitCalls == Start(CallUsers, CallIntents, ListsOf(CallPool))

SpecCalls == InitCalls /\ [][NextCalls]_vars

\* The same calls on the arguments about schools.
InitSchools == Start(SchoolUsers, SchoolIntents, ListsOf(SchoolPool))

SpecSchools == InitSchools /\ [][Next]_vars

\* The same calls on the arguments about the intent.
InitIntents == Start(IntentUsers, ShapedIntents, ListsOf(IntentPool))

SpecIntents == InitIntents /\ [][Next]_vars

\* The same calls on the arguments about roles and keywords.
InitRoles == Start(IntentUsers, RoleIntents, ListsOf(RolePool))

SpecRoles == InitRoles /\ [][Next]_vars

\* ------------------------------------------------------------- score bounds

\* Every returned candidate has a defined score between a and b.
ScoresWithin(out, a, b) ==
  \A i \in 1..Len(out) : out[i].score.den > 0 /\ RLeq(a, out[i].score) /\ RLeq(out[i].score, b)

\* C1: whichever entry point returned (scoreCandidates, scoreCandidatesSync or
\* the older scoreCandidates), every candidate of the returned array carries a
\* score with 0 <= score <= 1.
ScoreBounds == pc = "returned" => ScoresWithin(result, Th(0), Th(1000))

\* scoreCandidates returned a candidate whose contributions sum to more than 1
\* before the clamp.
ScoreBoundsWitness ==
  /\ pc = "returned"
  /\ entry = "scoreCandidates"
  /\ \E i \in 1..Len(result) :
       /\ RLess(Th(1000), RawScore(user, ParseIntent(intent), result[i]))
       /\ result[i].score = Th(1000)

\* ------------------------------------------------------------------- order

NonIncreasing(out) == \A i \in 1..(Len(out) - 1) : RLeq(out[i + 1].score, out[i].score)

\* C2: the array returned is non-increasing in score, for scoreCandidates,
\* scoreCandidatesSync and the older scoreCandidates alike.
SortedForEveryVariant == pc = "returned" => NonIncreasing(result)

\* The position of the candidate with this id in the array.
PosIn(arr, id) == CHOOSE k \in 1..Len(arr) : arr[k].id = id

\* C3: the descending sort of scoreCandidates and scoreCandidatesSync is
\* stable: two returned candidates with the same score stand in the order they
\* had in the input array.
StableSort ==
  (pc = "returned" /\ entry \in {"scoreCandidates", "scoreCandidatesSync"}) =>
    \A i, j \in 1..Len(result) :
      (i < j /\ result[i].score = result[j].score) =>
        PosIn(candidates, result[i].id) < PosIn(candidates, result[j].id)

\* scoreCandidates returned two candidates with the same score.
StableSortWitness ==
  /\ pc = "returned"
  /\ entry = "scoreCandidates"
  /\ \E i, j \in 1..Len(result) : i < j /\ result[i].score = result[j].score

\* --------------------------------------------------------------- frame effect

\* out[i] is a copy of one element of the array inp with nothing but score
\* changed.
CopyButScore(inp, o) ==
  \E j \in 1..Len(inp) : inp[j].id = o.id /\ o = [inp[j] EXCEPT !.score = o.score]

\* C4: a call of scoreCandidates (or scoreCandidatesSync) leaves the caller's
\* array as it was, the same elements in the same order and each object with
\* the fields and the score it had, and every returned candidate equals its
\* input candidate on every field other than score.
InputUntouched ==
  [][/\ candidates' = candidates
     /\ (pc' = "returned" /\ entry' \in {"scoreCandidates", "scoreCandidatesSync"}) =>
          \A i \in 1..Len(result') : CopyButScore(candidates, result'[i])]_vars

\* scoreCandidates returned the candidates in another order than the caller's,
\* and a candidate of the caller's array had a score before the call.
InputUntouchedWitness ==
  /\ pc = "returned"
  /\ entry = "scoreCandidates"
  /\ Len(result) = Len(candidates)
  /\ \E i \in 1..Len(candidates) :
       candidates[i].score # NoScore /\ result[i].id # candidates[i].id

\* C5: the returned array is a permutation of the input array: it has the
\* input's length and holds each input candidate's id exactly once.
Permutation ==
  pc = "returned" =>
    /\ Len(result) = Len(candidates)
    /\ \A k \in 1..Len(candidates) :
         Cardinality({i \in 1..Len(result) : result[i].id = candidates[k].id}) = 1

\* scoreCandidates returned a full-length array whose first element is not the
\* input's first.
PermutationWitness ==
  /\ pc = "returned"
  /\ entry = "scoreCandidates"
  /\ Len(candidates) = MaxCands
  /\ result[1].id # candidates[1].id

\* ----------------------------------------------------------------- determinism

Bare(c) ==
  /\ Falsy(c.title) /\ Falsy(c.company) /\ Falsy(c.email) /\ Falsy(c.linkedinUrl)
  /\ Falsy(c.location) /\ Falsy(c.summary) /\ Falsy(c.schools) /\ Falsy(c.skills)

NonEmptyEntries(seq) == \A i \in 1..Len(seq) : seq[i] # ""

\* C7: when the entries of user.schools, user.companies and user.skills are
\* non-empty strings, a call on candidates that have only id and name throws
\* nothing and returns each of them with score 0.
BareScoresZero ==
  (/\ pc # "idle"
   /\ candidates # << >>
   /\ \A i \in 1..Len(candidates) : Bare(candidates[i])
   /\ NonEmptyEntries(user.schools)
   /\ NonEmptyEntries(user.companies)
   /\ NonEmptyEntries(user.skills)) =>
    (pc = "returned" /\ ScoresWithin(result, Th(0), Th(0)))

Blank(s) == Trim(s) = ""

\* The user profile without the empty and the whitespace-only entries.
WithoutBlanks(usr) ==
  LET NotBlank(s) == ~Blank(s) IN
  User(SelectSeq(usr.schools, NotBlank), SelectSeq(usr.companies, NotBlank),
       SelectSeq(usr.skills, NotBlank))

\* C8: an empty or whitespace-only entry of user.schools, user.companies or
\* user.skills contributes nothing: every candidate scoreCandidates returns has
\* the score it gets from the same profile without those entries.
BlankEntriesContributeNothing ==
  (pc = "returned" /\ entry = "scoreCandidates") =>
    \A i \in 1..Len(result) :
      result[i].score =
        FallbackOne(WithoutBlanks(user), ParseIntent(intent), result[i]).obj.score

\* C9: a call of any entry point on an empty candidate list returns an empty
\* list and throws nothing, whatever the user and the intent.
EmptyListReturnsEmpty ==
  (pc # "idle" /\ candidates = << >>) => (pc = "returned" /\ result = << >>)

\* scoreCandidates returned on an empty list for the user whose first school
\* makes matchesSchool throw on any candidate it is asked about.
EmptyListReturnsEmptyWitness ==
  /\ pc = "returned"
  /\ entry = "scoreCandidates"
  /\ candidates = << >>
  /\ Len(user.schools) > 0
  /\ user.schools[1] \in InheritedKeys

\* ------------------------------------------------------------ alumni dominance

\* The schools text of c names the elite-priority institution.
NamesElite(c) ==
  ~Falsy(c.schools) /\ SomeIncluded(ToLowerCase(c.schools), umichiIndicators)

\* d is c without schools data (and is another candidate of the list).
TwinWithoutSchools(c, d) ==
  d = [c EXCEPT !.schools = Undefined, !.id = d.id, !.score = d.score]

\* C10: of two candidates scoreCandidates returned that differ in schools
\* alone, one naming the elite-priority institution there and one without
\* schools data, the first scores at least 0.6 more than the second, or 1 when
\* the clamp cuts the difference.
AlumniDominance ==
  (pc = "returned" /\ entry = "scoreCandidates") =>
    \A i, j \in 1..Len(result) :
      (NamesElite(result[i]) /\ TwinWithoutSchools(result[i], result[j])) =>
        RLeq(RMin(Th(1000), RAdd(result[j].score, Th(600))), result[i].score)

\* ------------------------------------------------------------ alumni exclusion

\* The school signal of c (schools, or the summary in its place) names a
\* near-miss institution and nothing that points at the elite one.
NearMissOnly(c) ==
  /\ SomeIncluded(SchoolsText(c), excludeIndicators)
  /\ ~SomeIncluded(SchoolsText(c), umichiIndicators)

\* The console holds a line of this tag about a candidate of this name.
Logged(tag, name) == \E k \in 1..Len(log) : log[k].tag = tag /\ log[k].name = name

\* c without its schools field.
WithoutSchools(c) == [c EXCEPT !.schools = Undefined]

\* C11: a candidate whose only school signal is a near-miss institution never
\* gets the elite-alumni contribution.  scoreCandidates never logs the
\* MICHIGAN ALUMNI line for it; scoreCandidatesSync, asked by a user without
\* schools, scores it as it scores the same candidate without schools, whose
\* summary carries no school signal.
ExclusionCorrectness ==
  /\ (pc = "returned" /\ entry = "scoreCandidates") =>
       \A i \in 1..Len(result) :
         NearMissOnly(result[i]) => ~Logged("MICHIGAN ALUMNI", result[i].name)
  /\ (pc = "returned" /\ entry = "scoreCandidatesSync" /\ user.schools = << >>) =>
       \A i \in 1..Len(result) :
         (/\ NearMissOnly(result[i])
          /\ ~Falsy(result[i].schools)
          /\ ~SomeIncluded(ToLowerCase(Or(result[i].summary, "")), umichiIndicators)) =>
           result[i].score =
             SyncOne(user, ParseIntentSync(intent), WithoutSchools(result[i])).score

\* scoreCandidates returned a near-miss candidate next to one that did get the
\* elite-alumni contribution.
ExclusionCorrectnessWitness ==
  /\ pc = "returned"
  /\ entry = "scoreCandidates"
  /\ \E i, j \in 1..Len(result) :
       /\ NearMissOnly(result[i])
       /\ isMichiganAlumni(SchoolsText(result[j]))
       /\ Logged("MICHIGAN ALUMNI", result[j].name)

\* The console holds an alumni line, elite or ordinary, about this candidate.
AlumniLogged(c) == Logged("MICHIGAN ALUMNI", c.name) \/ Logged("ALUMNI MATCH", c.name)

\* C12: scoreCandidates awards the ordinary alumni contribution (the ALUMNI
\* MATCH line) only to a candidate whose school text matches the entry of
\* user.schools it names, and a candidate whose school text holds any name of
\* the exclusion list gets no alumni contribution, elite or ordinary.
OrdinaryAlumniRespectsExclusions ==
  (pc = "returned" /\ entry = "scoreCandidates") =>
    /\ \A k \in 1..Len(log) :
         log[k].tag = "ALUMNI MATCH" =>
           \E i \in 1..Len(result), n \in 1..Len(user.schools) :
             /\ result[i].name = log[k].name
             /\ user.schools[n] = log[k].school
             /\ matchesSchool(SchoolsText(result[i]), log[k].school) = "true"
    /\ \A i \in 1..Len(result) :
         SomeIncluded(SchoolsText(result[i]), excludeIndicators) =>
           ~AlumniLogged(result[i])

\* ------------------------------------------------------------------- ranking

\* C20: in the array scoreCandidates returns, no candidate without an alumni
\* match stands before a candidate with one.
AlumniOnTop ==
  (pc = "returned" /\ entry = "scoreCandidates") =>
    \A i, j \in 1..Len(result) :
      (i < j /\ AlumniLogged(result[j])) => AlumniLogged(result[i])

\* ------------------------------------------------------------ elite alumni

\* How many lines of this tag the console holds.
LinesTagged(tag) == Cardinality({k \in 1..Len(log) : log[k].tag = tag})

\* The positions of the returned candidates that pass the elite-alumni test.
ElitePositions == {i \in 1..Len(result) : isMichiganAlumni(SchoolsText(result[i]))}

\* C13: after one call of scoreCandidates, every returned candidate that
\* passes the elite-alumni test has score exactly 1.0 (0.8 and the 0.2 bonus,
\* whatever else is added), the elite contribution was added once for each of
\* them, and the ordinary contribution to none of them.
EliteWorthOne ==
  (pc = "returned" /\ entry = "scoreCandidates" /\ prev = << >>) =>
    /\ \A i \in ElitePositions : result[i].score = Th(1000)
    /\ LinesTagged("MICHIGAN ALUMNI") = Cardinality(ElitePositions)
    /\ LinesTagged("ALUMNI MATCH") <= Len(result) - Cardinality(ElitePositions)

\* scoreCandidates returned an elite alumnus with no other contribution, asked
\* by a user whose schools would match any candidate.
EliteWorthOneWitness ==
  /\ pc = "returned"
  /\ entry = "scoreCandidates"
  /\ prev = << >>
  /\ user.schools = <<"">>
  /\ \E i \in ElitePositions :
       RawScore(user, ParseIntent(intent), result[i]) = Th(1000)

\* ------------------------------------------------------------------ rounding

\* C16: every score returned by scoreCandidates or scoreCandidatesSync is a
\* whole number of thousandths between 0 and 1000.
RoundedToThousandths ==
  (pc = "returned" /\ entry \in {"scoreCandidates", "scoreCandidatesSync"}) =>
    \A i \in 1..Len(result) :
      result[i].score.den = 1 /\ result[i].score.num \in 0..1000

\* ------------------------------------------------------------------ strategy

\* The last call ended as r says, with r's array.
EndedAs(r) == pc = r.outcome /\ result = r.ret

\* C17: scoreCandidates reads no credential and has no other strategy to
\* choose: in every case, so in every case without a credential or with an
\* empty list, it ends as the heuristic scorer fallbackScoring ends on its
\* arguments and returns the candidates with the scores and in the order
\* fallbackScoring gives them.
HeuristicInEveryCase ==
  (pc # "idle" /\ entry = "scoreCandidates") =>
    EndedAs(fallbackScoring(user, intent, candidates))

\* scoreCandidates returned a full list with different scores, none of them 0.
HeuristicInEveryCaseWitness ==
  /\ pc = "returned"
  /\ entry = "scoreCandidates"
  /\ Len(result) = MaxCands
  /\ RLess(result[Len(result)].score, result[1].score)
  /\ RLess(Th(0), result[Len(result)].score)

\* ------------------------------------------------------------ intent parsing

\* The score fallbackScoring gives c when the intent is read as parsed says.
ScoreReadAs(parsed, c) == FallbackOne(user, parsed, c).obj.score

\* C14: for an intent "<request> at C in L" the intent company is C, and every
\* candidate scoreCandidates returns whose company contains C has the score of
\* a reading of the intent with company C, the +0.25 company contribution in it.
CompanyStopsBeforeIn ==
  (pc = "returned" /\ entry = "scoreCandidates") =>
    \A r \in IntentRequests, c \in IntentCompanies, l \in IntentPlaces :
      intent = Shaped(r, c, l) =>
        \A i \in 1..Len(result) :
          textContains(result[i].company, c) =>
            /\ IntentCompany(intent) = c
            /\ result[i].score =
                 ScoreReadAs([ParseIntent(intent) EXCEPT !.company = c], result[i])

\* C15: for an intent that ends in "in L" the intent location is L, also when
\* an earlier part of the intent has the shape "in <words>", and every
\* candidate scoreCandidates returns whose location contains L has the score of
\* a reading of the intent with location L, the +0.15 location contribution in
\* it.
LocationIsLastIn ==
  (pc = "returned" /\ entry = "scoreCandidates") =>
    \A r \in IntentRequests, c \in IntentCompanies, l \in IntentPlaces :
      intent = Shaped(r, c, l) =>
        \A i \in 1..Len(result) :
          textContains(result[i].location, l) =>
            /\ IntentLocation(intent) = l
            /\ result[i].score =
                 ScoreReadAs([ParseIntent(intent) EXCEPT !.location = l], result[i])

\* --------------------------------------------------------------- intent role

\* The score of a candidate whose contributions sum to raw.
ScoreOf(raw) == ToFixed3(Clamp(raw))

\* The earliest entry of the keyword list that occurs in the intent, whatever
\* its case.
ListOrderRole ==
  LET occurring == {k \in 1..Len(roleHints) : Includes(ToLowerCase(intent), roleHints[k])}
  IN IF occurring = {} THEN Undefined ELSE roleHints[Min(occurring)]

\* C24: the intent role is the earliest entry of the keyword list that occurs
\* in the intent as a case-insensitive substring, absent exactly when none
\* occurs, and every candidate of the call is scored with that one role.
RoleByListOrder ==
  (pc = "returned" /\ entry = "scoreCandidates") =>
    /\ ParseIntent(intent).role = ListOrderRole
    /\ (ParseIntent(intent).role = Undefined) <=>
         (\A k \in 1..Len(roleHints) : ~Includes(ToLowerCase(intent), roleHints[k]))
    /\ \A i \in 1..Len(result) :
         result[i].score =
           ScoreReadAs([ParseIntent(intent) EXCEPT !.role = ListOrderRole], result[i])

\* An intent that names "manager" before "product" is read as "product", and
\* the product manager gets the role and the synonym contribution.
RoleByListOrderWitness ==
  /\ pc = "returned"
  /\ entry = "scoreCandidates"
  /\ intent = "Find a manager for product"
  /\ ListOrderRole = "product"
  /\ \E i \in 1..Len(result) : result[i].id = Di.id /\ result[i].score = Th(700)

\* ---------------------------------------------------------- role contribution

TitleHasRole(role, c) == ~Falsy(role) /\ ~Falsy(c.title) /\ textContains(c.title, role)

TitleHasSynonym(role, c) ==
  /\ ~Falsy(role)
  /\ ~Falsy(c.title)
  /\ role \in DOMAIN roleSynonyms
  /\ \E k \in 1..Len(roleSynonyms[role]) : textContains(c.title, roleSynonyms[role][k])

\* 0.3 for the role in the title and 0.2 for a synonym in it, in thousandths.
RoleContribution(role, c) ==
  (IF TitleHasRole(role, c) THEN 300 ELSE 0) + (IF TitleHasSynonym(role, c) THEN 200 ELSE 0)

\* C25: the role contribution in the score of every candidate scoreCandidates
\* returns is 0.3 when the title contains the intent role plus 0.2, once, when
\* the title contains a synonym of it: one of 0, 0.2, 0.3 and 0.5, and 0
\* without an intent role or without a title.
RoleContributionValues ==
  (pc = "returned" /\ entry = "scoreCandidates") =>
    \A i \in 1..Len(result) :
      LET parsed == ParseIntent(intent)
          part == RoleContribution(parsed.role, result[i])
      IN /\ part \in {0, 200, 300, 500}
         /\ (Falsy(parsed.role) \/ Falsy(result[i].title)) => part = 0
         /\ RoleBlock(parsed.role, result[i]) = Th(part)
         /\ result[i].score =
              ScoreOf(RAdd(RawScore(user, [parsed EXCEPT !.role = Undefined], result[i]),
                           Th(part)))

\* A title with two synonyms of the role and not the role itself gets 0.2, and
\* a title with the role and a synonym 0.5.
RoleContributionValuesWitness ==
  /\ pc = "returned"
  /\ entry = "scoreCandidates"
  /\ ParseIntent(intent).role = "engineer"
  /\ \E i \in 1..Len(result) :
       /\ result[i].id = Gil.id
       /\ RoleContribution("engineer", result[i]) = 200
       /\ textContains(result[i].title, "developer") /\ textContains(result[i].title, "dev")
  /\ \E i \in 1..Len(result) :
       result[i].id = Hal.id /\ RoleContribution("engineer", result[i]) = 300

\* ------------------------------------------------------------ keyword overlap

StopWords == {"find", "contacts", "with", "from"}

\* 0.2 x (matches / total) over the first 8 words of the lower-cased intent
\* that are longer than 3 characters and no stop word; 0 without any.
KeywordContribution(c) ==
  LET words == SplitNonWord(ToLowerCase(intent))
      kept == {k \in 1..Len(words) : Len(words[k]) > 3 /\ words[k] \notin StopWords}
      first8 == {k \in kept : Cardinality({j \in kept : j < k}) < 8}
      matches == Cardinality({k \in first8 : /\ ~Falsy(c.summary)
                                              /\ Includes(ToLowerCase(c.summary), words[k])})
  IN IF first8 = {} THEN Th(0) ELSE Rat(200 * matches, Cardinality(first8))

\* C26: the keyword contribution in the score of every candidate
\* scoreCandidates returns is 0.2 x (matches / total) over the first 8 keywords
\* of the intent, at most 0.2, 0 without a summary and 0 when the intent has
\* no keyword.
KeywordOverlap ==
  (pc = "returned" /\ entry = "scoreCandidates") =>
    \A i \in 1..Len(result) :
      LET parsed == ParseIntent(intent)
          part == KeywordContribution(result[i])
      IN /\ RLeq(part, Th(200))
         /\ Falsy(result[i].summary) => part = Th(0)
         /\ KeywordBlock(parsed.keywords, result[i]) = part
         /\ result[i].score =
              ScoreOf(RAdd(RawScore(user, [parsed EXCEPT !.keywords = << >>], result[i]),
                           part))

\* Two of four keywords are in the summary: 0.1.
KeywordOverlapWitness ==
  /\ pc = "returned"
  /\ entry = "scoreCandidates"
  /\ Len(ParseIntent(intent).keywords) = 4
  /\ \E i \in 1..Len(result) :
       result[i].id = Gil.id /\ KeywordContribution(result[i]) = Th(100)

\* The intent has more than eight keywords; the ones after the eighth are not
\* counted.
KeywordCapWitness ==
  /\ pc = "returned"
  /\ entry = "scoreCandidates"
  /\ Len(ParseIntent(intent).keywords) = 8
  /\ \E i \in 1..Len(result) :
       /\ result[i].id = Gil.id
       /\ Includes(ToLowerCase(result[i].summary), "rust")
       /\ KeywordContribution(result[i]) = Th(0)

\* --------------------------------------------------------------- monotonicity

OptionalFields ==
  {"title", "company", "email", "linkedinUrl", "location", "summary", "schools", "skills"}

\* C27: a candidate scoreCandidates returns would not score lower with a
\* non-empty value in a field it lacks (the value some candidate of the pool
\* has there), its other fields, the user and the intent being the same.
MonotoneInFields ==
  (pc = "returned" /\ entry = "scoreCandidates") =>
    \A i \in 1..Len(result), d \in Pool, f \in OptionalFields :
      (result[i][f] = Undefined /\ ~Falsy(d[f])) =>
        LET more == FallbackOne(user, ParseIntent(intent), [result[i] EXCEPT ![f] = d[f]])
        IN ~more.threw => RLeq(result[i].score, more.obj.score)

\* --------------------------------------------------------------- independence

\* The score scoreCandidates gives c when c is the only element of the array.
ScoreAlone(c) == scoreCandidates(user, intent, <<c>>).ret[1].score

IssuedIds == {"q7k1", "x2m9"}

RequestIds == IssuedIds \cup {"zz00", "pkl", Undefined}

\* Line 203.
SessionFileOf(sessionId) == "linkedin_session_" \o sessionId \o ".pkl"

StartsWith(s, prefix) == Len(prefix) <= Len(s) /\ SubSeq(s, 1, Len(prefix)) = prefix

EndsWith(s, suffix) ==
  Len(suffix) <= Len(s) /\ SubSeq(s, Len(s) - Len(suffix) + 1, Len(s)) = suffix

IsSessionFile(file) == StartsWith(file, "linkedin_session_") /\ EndsWith(file, ".pkl")

\* map.set(key, value)
MapSet(map, key, value) ==
  [k \in DOMAIN map \cup {key} |-> IF k = key THEN value ELSE map[k]]

\* map.delete(key)
MapDelete(map, key) == [k \in DOMAIN map \ {key} |-> map[k]]

\* seq with x put in at position i.
InsertAt(seq, i, x) == SubSeq(seq, 1, i - 1) \o <<x>> \o SubSeq(seq, i, Len(seq))

\* POST /linkedin/auth, lines 198-275: a fresh session id; when the browser
\* authentication succeeds the session file exists and the map has the
\* session, otherwise the reply is 401.  readdir promises no order, so the new
\* file may show up anywhere in the listing.
LinkedInAuth ==
  /\ \E sessionId \in IssuedIds, success \in BOOLEAN :
       /\ SessionFileOf(sessionId) \notin Range(files)
       /\ sessionId \notin DOMAIN userSessions
       /\ IF success
            THEN /\ \E i \in 1..(Len(files) + 1) :
                      files' = InsertAt(files, i, SessionFileOf(sessionId))
                 /\ userSessions' = MapSet(userSessions, sessionId, SessionFileOf(sessionId))
                 /\ http' = [route |-> "linkedin/auth", at |-> "replied", code |-> 200,
                             sessionId |-> sessionId,
                             sessionFile |-> SessionFileOf(sessionId)]
          ELSE /\ UNCHANGED <<files, userSessions>>
               /\ http' = [route |-> "linkedin/auth", at |-> "replied", code |-> 401,
                           sessionId |-> Undefined, sessionFile |-> Undefined]
  /\ UNCHANGED <<scoringVars, threads, webhookEvents, outbox, hook, devRouting>>

\* The server process starts again: the map is empty, the files are still there.
Restart ==
  /\ userSessions # << >>
  /\ userSessions' = << >>
  /\ http' = HttpIdle
  /\ UNCHANGED <<scoringVars, files, threads, webhookEvents, outbox, hook, devRouting>>

\* cleanupOldSessions, lines 55-91, for one session older than the TTL: its
\* map entry goes when createdAt is old, its file when the file's mtime is.
CleanupOldSessions ==
  /\ \E sessionId \in IssuedIds, entryOld \in BOOLEAN, fileOld \in BOOLEAN :
       /\ entryOld \/ fileOld
       /\ entryOld => sessionId \in DOMAIN userSessions
       /\ fileOld => SessionFileOf(sessionId) \in Range(files)
       /\ userSessions' = IF entryOld THEN MapDelete(userSessions, sessionId)
                          ELSE userSessions
       /\ files' = IF fileOld
                     THEN SelectSeq(files, LAMBDA f : f # SessionFileOf(sessionId))
                   ELSE files
  /\ UNCHANGED <<scoringVars, http, threads, webhookEvents, outbox, hook, devRouting>>

\* Lines 1229-1283 of POST /search/run: the session of the request.  file:
\* the session file to use, undefined when there is none; store: whether the
\* map gets an entry for sessionId.
ResolveSession(sessionId, listing, readdirOk) ==
  LET sessionFiles == SelectSeq(listing, LAMBDA file : /\ IsSessionFile(file)
                                                       /\ Includes(file, sessionId))
      allSessionFiles == SelectSeq(listing, IsSessionFile)
  IN IF ~Falsy(sessionId) /\ sessionId \in DOMAIN userSessions
       THEN [file |-> userSessions[sessionId], store |-> FALSE]
     ELSE IF Falsy(sessionId) \/ ~readdirOk THEN [file |-> Undefined, store |-> FALSE]
     ELSE IF Len(sessionFiles) > 0 THEN [file |-> sessionFiles[1], store |-> TRUE]
     ELSE IF Len(allSessionFiles) > 0 THEN [file |-> allSessionFiles[1], store |-> TRUE]
     ELSE [file |-> Undefined, store |-> FALSE]

\* What POST /search/run does with the session, lines 1285-1304: 401 without
\* one, else the search runs with userSession.sessionFile.
Answer(sessionId, session) ==
  /\ userSessions' = IF session.store THEN MapSet(userSessions, sessionId, session.file)
                     ELSE userSessions
  /\ http' = IF Falsy(sessionId) \/ session.file = Undefined
               THEN [route |-> "search/run", at |-> "replied", code |-> 401,
                     sessionId |-> sessionId, sessionFile |-> Undefined]
             ELSE [route |-> "search/run", at |-> "searching", code |-> 0,
                   sessionId |-> sessionId, sessionFile |-> session.file]

\* POST /search/run up to the start of the search.
SearchRun ==
  /\ \E sessionId \in RequestIds, readdirOk \in BOOLEAN :
       Answer(sessionId, ResolveSession(sessionId, files, readdirOk))
  /\ UNCHANGED <<scoringVars, files, threads, webhookEvents, outbox, hook, devRouting>>

NextSessions == LinkedInAuth \/ Restart \/ CleanupOldSessions \/ SearchRun

InitSessions == Start({User(<< >>, << >>, << >>)}, {""}, {<< >>})

SpecSessions == InitSessions /\ [][NextSessions]_vars

\* C23: a search of POST /search/run runs with the session file of the
\* sessionId of the request, and a request without sessionId, or with one
\* /linkedin/auth never issues and that has no session file, is answered 401.
SessionIsolation ==
  http.route = "search/run" =>
    /\ http.at = "searching" => http.sessionFile = SessionFileOf(http.sessionId)
    /\ (\/ Falsy(http.sessionId)
        \/ (http.sessionId \notin IssuedIds
              /\ SessionFileOf(http.sessionId) \notin Range(files)))
         => http.code = 401

\* ------------------------------------- main.ts: scoring in the route handlers

\* JavaScript values a handler holds and sends: an array, a promise (pending,
\* with the outcome it will settle to), and what JSON.stringify makes of them
\* in a reply.  A promise has no enumerable property of its own: it is sent
\* as the empty object.
Arr(items) == [type |-> "array", items |-> items]

PendingPromise(outcome) == [type |-> "promise", items |-> << >>, outcome |-> outcome]

EmptyObject == [type |-> "object", items |-> << >>]

ToJSON(value) == IF value.type = "promise" THEN EmptyObject ELSE value

\* Requests to POST /linkedin/scrape: the prompt, and what parseSearchPrompt
\* (lines 886-940) makes of it.
ScrapeRequests ==
  { [prompt |-> "Find SWE contacts at Amazon in Seattle",
     params |-> [company |-> "Amazon", role |-> "SWE", location |-> "Seattle"]],
    [prompt |-> "Find product managers at Google",
     params |-> [company |-> "Google", role |-> "product", location |-> "USA"]],
    [prompt |-> "Hello there",
     params |-> [company |-> "", role |-> "", location |-> "USA"]] }

\* Rows of the CSV file the scraper writes.
NoColumns ==
  [name |-> "", title |-> "", headline |-> "", company |-> "", email |-> "",
   profile_link |-> "", linkedin_url |-> "", location |-> "", summary |-> "", about |-> ""]

RowBo ==
  [NoColumns EXCEPT !.name = "Bo", !.title = "Senior Software Engineer",
     !.company = "Amazon Web Services", !.email = "bo@aws.example",
     !.profile_link = "linkedin.com/in/bo", !.location = "Seattle, WA",
     !.summary = "Backend developer building data pipelines in Python and Go"]

RowDi == [NoColumns EXCEPT !.name = "Di", !.headline = "Product Manager", !.company = "Google"]

RowCy == [NoColumns EXCEPT !.name = "Cy", !.about = "Sales, umich class of 2019"]

Rows == {RowBo, RowDi, RowCy}

\* a || null
OrNull(a) == IF Falsy(a) THEN Undefined ELSE a

\* Lines 556-566: the candidate of a row.
ToCandidate(row, index, params) ==
  [NoFields EXCEPT
     !.id = "linkedin-" \o ToString(index),
     !.name = Or(row.name, "Unknown"),
     !.title = Or(Or(row.title, row.headline), params.role),
     !.company = Or(row.company, params.company),
     !.email = OrNull(row.email),
     !.linkedinUrl = OrNull(Or(row.profile_link, row.linkedin_url)),
     !.location = Or(row.location, params.location),
     !.summary = Or(Or(row.summary, row.about),
                    Or(row.title, params.role) \o " at " \o Or(row.company, params.company))]

\* The fields of http while a handler scores: user and candidates are the
\* arguments for scoreCandidates, scored the handler's const scored, code and
\* results the reply once it is sent.
Scoring(route, at, prompt, usr, cands) ==
  [route |-> route, at |-> at, prompt |-> prompt, user |-> usr, candidates |-> cands,
   scored |-> EmptyObject, code |-> 0, results |-> EmptyObject]

Failed(route, code) ==
  [route |-> route, at |-> "replied", prompt |-> "", user |-> User(<< >>, << >>, << >>),
   candidates |-> << >>, scored |-> EmptyObject, code |-> code, results |-> EmptyObject]

\* POST /linkedin/scrape, lines 524-575: the request is checked, the scraper
\* runs, the rows of its CSV file become candidates, to be scored for the
\* empty user profile of line 572.
ScrapeReceive ==
  /\ http.at = "idle"
  /\ \E request \in ScrapeRequests, success \in BOOLEAN, csvData \in ListsOf(Rows) :
       http' =
         IF Falsy(request.params.company) \/ Falsy(request.params.role)
           THEN Failed("linkedin/scrape", 400)
         ELSE IF ~success THEN Failed("linkedin/scrape", 500)
         ELSE Scoring("linkedin/scrape", "mapped", request.prompt,
                      User(<< >>, << >>, << >>),
                      [i \in 1..Len(csvData) |->
                         ToCandidate(csvData[i], i - 1, request.params)])
  /\ UNCHANGED <<scoringVars, userSessions, files, threads, webhookEvents, outbox,
                 hook, devRouting>>

\* What a call of scoreCandidates leaves in the handler before anything is
\* awaited: scoreCandidates has logged and fallbackScoring has run, and the
\* caller holds the promise.
Called(at, r) ==
  /\ http' = [http EXCEPT !.at = at, !.scored = PendingPromise(r)]
  /\ log' = log \o r.log
  /\ UNCHANGED <<user, intent, candidates, pc, entry, result, prev, userSessions, files,
                 threads, webhookEvents, outbox, hook, devRouting>>

\* Lines 570-575: const scored = scoreCandidates({...}), not awaited.
ScrapeScore ==
  /\ http.route = "linkedin/scrape"
  /\ http.at = "mapped"
  /\ Called("called", scoreCandidates(http.user, http.prompt, http.candidates))

\* reply.send({ results: scored, ... }), lines 577-584 and 1377-1386.
Send(scored) ==
  /\ http' = [http EXCEPT !.at = "replied", !.code = 200, !.results = ToJSON(scored)]
  /\ UNCHANGED <<scoringVars, userSessions, files, threads, webhookEvents, outbox,
                 hook, devRouting>>

ScrapeSend ==
  /\ http.route = "linkedin/scrape"
  /\ http.at = "called"
  /\ Send(http.scored)

\* What a settled promise holds.
Settled(promise) ==
  IF promise.outcome.outcome = "returned" THEN Arr(promise.outcome.ret) ELSE EmptyObject

\* The promise nobody awaits settles after the handler has replied.
ScrapeSettle ==
  /\ http.route = "linkedin/scrape"
  /\ http.at = "replied"
  /\ http.scored.type = "promise"
  /\ http' = [http EXCEPT !.at = "settled", !.scored = Settled(http.scored)]
  /\ UNCHANGED <<scoringVars, userSessions, files, threads, webhookEvents, outbox,
                 hook, devRouting>>

\* Requests to POST /search/run with a session, after lines 1290-1334: the
\* prompt, the profile of the session's user, and the candidates
\* loadCandidatesFromCSV returned.
SearchReceive ==
  /\ http.at = "idle"
  /\ \E request \in ScrapeRequests, usr \in CallUsers, cands \in ListsOf(CallPool) :
       http' = IF Falsy(request.params.company) \/ Falsy(request.params.role)
                 THEN Failed("search/run", 400)
               ELSE Scoring("search/run", "mapped", request.prompt, usr, cands)
  /\ UNCHANGED <<scoringVars, userSessions, files, threads, webhookEvents, outbox,
                 hook, devRouting>>

\* Lines 1336-1341: const scored = await scoreCandidates({...}).
SearchScore ==
  /\ http.route = "search/run"
  /\ http.at = "mapped"
  /\ Called("awaiting", scoreCandidates(http.user, Or(http.prompt, ""), http.candidates))

\* The awaited promise settles: the handler goes on with the array, or its
\* catch replies 500 (lines 1400-1403).
SearchResume ==
  /\ http.route = "search/run"
  /\ http.at = "awaiting"
  /\ http' = IF http.scored.outcome.outcome = "returned"
               THEN [http EXCEPT !.at = "scored", !.scored = Settled(http.scored)]
             ELSE Failed("search/run", 500)
  /\ UNCHANGED <<scoringVars, userSessions, files, threads, webhookEvents, outbox,
                 hook, devRouting>>

\* Lines 1343-1375: the candidates without email get the one the enrichment
\* found, if any; the array and its order stay.
Enriched(items, email) ==
  [i \in 1..Len(items) |->
     IF (Falsy(items[i].email) \/ items[i].email = "null") /\ ~Falsy(email)
       THEN [items[i] EXCEPT !.email = email]
     ELSE items[i]]

SearchSend ==
  /\ http.route = "search/run"
  /\ http.at = "scored"
  /\ \E email \in {Undefined, "found@enrich.example"} :
       Send(Arr(Enriched(http.scored.items, email)))

NextReplies ==
  \/ ScrapeReceive
  \/ ScrapeScore
  \/ ScrapeSend
  \/ ScrapeSettle
  \/ SearchReceive
  \/ SearchScore
  \/ SearchResume
  \/ SearchSend

InitReplies == Start({User(<< >>, << >>, << >>)}, {""}, {<< >>})

SpecReplies == InitReplies /\ [][NextReplies]_vars

\* The items of an array are the candidates cands, each once, with scores,
\* in descending order of score.
ScoredListOf(cands, value) ==
  /\ value.type = "array"
  /\ Len(value.items) = Len(cands)
  /\ \A i \in 1..Len(cands) : \E j \in 1..Len(value.items) : value.items[j].id = cands[i].id
  /\ \A j \in 1..Len(value.items) : value.items[j].score.den # 0
  /\ \A j \in 1..(Len(value.items) - 1) :
       RLeq(value.items[j + 1].score, value.items[j].score)

\* C29: the results field of a 200 reply of POST /linkedin/scrape, like that
\* of POST /search/run, is the list of the scored candidates: one entry per
\* candidate, each with a score, sorted descending.
ReplyHasScoredList ==
  (http.route \in {"linkedin/scrape", "search/run"} /\ http.code = 200) =>
    ScoredListOf(http.candidates, http.results)

\* The same, of POST /search/run alone.
SearchReplyHasScoredList ==
  (http.route = "search/run" /\ http.code = 200) =>
    ScoredListOf(http.candidates, http.results)

\* ------------------------------------------------- main.ts: email and threads

\* process.env.DEV_EMAIL_ADDRESS || 'linusaw@umich.edu', line 1759.
DevEmail == "linusaw@umich.edu"

CandidateEmail == "john@company.com"

\* The thread of the EmailThread table: its state, the recipient the outreach
\* was meant for, and participant, the address the thread's messages go to at
\* AgentMail, which is where a reply in the thread is delivered (sendReply
\* names no recipient).  pausedByUser records that POST .../pause has paused it.
Thread(state, participant) ==
  [state |-> state, recipientEmail |-> CandidateEmail, participant |-> participant,
   subject |-> "Quick connect", pausedByUser |-> FALSE]

ThreadId == "th1"

\* The table with one thread, started when outreach went to the candidate
\* (routing off) or to the development address (routing on).
ThreadsStartedUnder(routing) ==
  { [t \in {ThreadId} |->
       Thread(state, IF routing = "true" THEN DevEmail ELSE CandidateEmail)] :
    state \in {"AWAITING_REPLY", "SCHEDULING"} }

\* The server is started again with another DEV_EMAIL_ROUTING; the tables stay.
Reconfigure ==
  /\ hook.at \in {"idle", "replied"}
  /\ devRouting' = IF devRouting = "true" THEN "false" ELSE "true"
  /\ hook' = [HookIdle EXCEPT !.no = hook.no]
  /\ UNCHANGED <<scoringVars, userSessions, files, http, threads, webhookEvents, outbox>>

\* POST /email/threads/:threadId/pause, lines 2332-2353: the update throws
\* for a thread that does not exist, and the reply is 500.
PauseThread ==
  /\ \E threadId \in {ThreadId, "zz"} :
       threads' = IF threadId \in DOMAIN threads
                    THEN [threads EXCEPT ![threadId].state = "PAUSED",
                                         ![threadId].pausedByUser = TRUE]
                  ELSE threads
  /\ threads' # threads
  /\ UNCHANGED <<scoringVars, userSessions, files, http, webhookEvents, outbox, hook,
                 devRouting>>

\* An email handed to AgentMail: how (sendEmail or sendReply), to whom, with
\* what subject, in which thread, for which candidate, under which
\* DEV_EMAIL_ROUTING, and for which webhook record (0: none).
Email(kind, to, subject, thread, candidate, hookId) ==
  [kind |-> kind, to |-> to, subject |-> subject, thread |-> thread,
   candidate |-> candidate, dev |-> devRouting, hookId |-> hookId]

\* Lines 1756-1761 and 1882-1899 of POST /email/send: recipient and subject.
Outreach(candidateEmail, candidateName, emailSubject) ==
  LET isDevMode == devRouting = "true"
      actualRecipientEmail == IF isDevMode THEN DevEmail ELSE candidateEmail
      finalSubject == IF isDevMode
                        THEN "[DEV] " \o emailSubject \o " (for " \o candidateName \o ")"
                      ELSE emailSubject
  IN Email("outreach", actualRecipientEmail, finalSubject, Undefined, candidateEmail, 0)

\* POST /email/send, lines 1738-1930: 400 without candidateEmail or message;
\* the subject is the request's, or a default that names the candidate when
\* the message was personalised; the email goes out unless a step before it
\* throws.  No thread is recorded (lines 1903-1913).
EmailSend ==
  /\ Len(SelectSeq(outbox, LAMBDA e : e.kind = "outreach")) < MaxSends
  /\ \E candidateEmail \in {CandidateEmail, ""}, subject \in {"Hello", Undefined},
        personalised \in BOOLEAN, sent \in BOOLEAN :
       outbox' =
         IF Falsy(candidateEmail) \/ ~sent THEN outbox
         ELSE Append(outbox,
                     Outreach(candidateEmail, "John Doe",
                              IF personalised THEN Or(subject, "Quick connect - John Doe")
                              ELSE Or(subject, "Quick Connect")))
  /\ outbox' # outbox
  /\ UNCHANGED <<scoringVars, userSessions, files, http, threads, webhookEvents, hook,
                 devRouting>>

\* ------------------------------------------ main.ts: POST /webhooks/agentmail

\* A request without a body: event.type throws on line 1973.
NullBody == Event("<no body>", Undefined, Undefined, Undefined)

DeliveryTypes == {"message.delivered", "message.opened", "message.bounced", "message.failed"}

\* The events AgentMail posts about the thread, events with fields missing,
\* about a thread the table does not have, of a type the handler does not
\* know, or without a type.
Events ==
  { Event(type, "m1", ThreadId, "in1") :
      type \in DeliveryTypes \cup {"message.received", "message.clicked", Undefined} }
  \cup { Event("message.delivered", Undefined, ThreadId, "in1"),
         Event("message.bounced", "m1", Undefined, "in1"),
         Event("message.opened", "m1", "zz", "in1"),
         Event("message.received", "m1", ThreadId, Undefined),
         Event("message.received", "m1", "zz", "in1"),
         NullBody }

\* What the LLM can answer (lines 2196-2211).
Analyses ==
  { [thread_state |-> "SCHEDULING", auto_reply_needed |-> TRUE],
    [thread_state |-> "CLOSED", auto_reply_needed |-> FALSE] }

\* The steps of the webhook handler leave everything but these alone.
HookFrame == UNCHANGED <<scoringVars, userSessions, files, http, devRouting>>

\* The request arrives.
HookReceive ==
  /\ hook.at \in {"idle", "replied"}
  /\ hook.no < MaxHooks
  /\ \E event \in Events :
       hook' = [HookIdle EXCEPT
                  !.at = "received", !.no = hook.no + 1, !.event = event,
                  !.pausedBefore = {t \in DOMAIN threads : /\ threads[t].pausedByUser
                                                           /\ threads[t].state = "PAUSED"}]
  /\ UNCHANGED <<threads, webhookEvents, outbox>>
  /\ HookFrame

\* Lines 2000-2007: the case of the switch for the event's type.
CaseOf(type) ==
  IF type \in DeliveryTypes THEN "delivery"
  ELSE IF type = "message.received" THEN "inbound"
  ELSE "handled"

\* The row prisma.webhookEvent.create writes, lines 1980-1989.
\* (Variant: the row is written as processed.)
WebhookRecordMutProcessed(id, event) ==
  [id |-> id, type |-> Or(event.type, "unknown"), processed |-> TRUE]
WebhookRecord(id, event) ==
  [id |-> id, type |-> Or(event.type, "unknown"), processed |-> FALSE]

\* Lines 1972-2007: the audit record is created, then the switch picks the
\* handler; a request without a body or a failing create ends in the catch
\* of line 2019 with a 500 reply.
HookCreate ==
  /\ hook.at = "received"
  /\ \E created \in BOOLEAN :
       IF hook.event = NullBody \/ ~created
         THEN /\ hook' = [hook EXCEPT !.at = "replied", !.code = 500]
              /\ UNCHANGED webhookEvents
       ELSE /\ webhookEvents' =
                 Append(webhookEvents, WebhookRecord(Len(webhookEvents) + 1, hook.event))
            /\ hook' = [hook EXCEPT !.at = CaseOf(hook.event.type),
                                    !.recordId = Len(webhookEvents) + 1]
  /\ UNCHANGED <<threads, outbox>>
  /\ HookFrame

\* prisma.emailThread.findFirst({ where: { providerThreadId } }): a where
\* field that is undefined is no condition, so any thread can come back;
\* none is "<none>".
FindFirstThread(thread_id) ==
  IF thread_id = Undefined THEN (IF threads = << >> THEN {"<none>"} ELSE DOMAIN threads)
  ELSE IF thread_id \in DOMAIN threads THEN {thread_id}
  ELSE {"<none>"}

\* Lines 2052-2057: the state a delivery event asks for.
NewState(type, state) ==
  IF type = "message.delivered" THEN "AWAITING_REPLY"
  ELSE IF type \in {"message.bounced", "message.failed"} THEN "ERROR"
  ELSE state

\* handleDeliveryEvent, lines 2029-2057: returns without message_id, without
\* a thread, when the lookup throws, or when the state is to stay.
HookDeliveryFind ==
  /\ hook.at = "delivery"
  /\ \E found \in FindFirstThread(hook.event.thread_id), threw \in BOOLEAN :
       hook' =
         IF Falsy(hook.event.message_id) \/ threw \/ found = "<none>"
           THEN [hook EXCEPT !.at = "handled"]
         ELSE IF NewState(hook.event.type, threads[found].state) = threads[found].state
           THEN [hook EXCEPT !.at = "handled"]
         ELSE [hook EXCEPT
                 !.at = "delivery update",
                 !.thread = [id |-> found,
                             state |-> NewState(hook.event.type, threads[found].state)]]
  /\ UNCHANGED <<threads, webhookEvents, outbox>>
  /\ HookFrame

\* prisma.emailThread.update in a handler: the thread gets the state and the
\* handler goes on at next, or the update throws, nothing is written and the
\* handler goes on at otherwise, where its catch leads.
WriteState(id, state, written, next, otherwise) ==
  /\ threads' = IF written THEN [threads EXCEPT ![id].state = state] ELSE threads
  /\ hook' = [hook EXCEPT !.at = IF written THEN next ELSE otherwise]
  /\ UNCHANGED <<webhookEvents, outbox>>
  /\ HookFrame

\* Lines 2059-2064.
HookDeliveryUpdate ==
  /\ hook.at = "delivery update"
  /\ \E written \in BOOLEAN :
       WriteState(hook.thread.id, hook.thread.state, written, "handled", "handled")

\* handleInboundMessage, lines 2076-2129: returns without one of the three
\* ids, without a thread, or when the lookup, the fetch from AgentMail or the
\* insert of the inbound message throws.
HookInboundFind ==
  /\ hook.at = "inbound"
  /\ \E found \in FindFirstThread(hook.event.thread_id), threw \in BOOLEAN :
       hook' =
         IF \/ Falsy(hook.event.message_id)
            \/ Falsy(hook.event.thread_id)
            \/ Falsy(hook.event.inbox_id)
            \/ threw
            \/ found = "<none>"
           THEN [hook EXCEPT !.at = "handled"]
         ELSE [hook EXCEPT !.at = "inbound update",
                           !.thread = [id |-> found, state |-> "AWAITING_REPLY"]]
  /\ UNCHANGED <<threads, webhookEvents, outbox>>
  /\ HookFrame

\* Lines 2133-2140: the thread is set to AWAITING_REPLY, whatever its state.
HookInboundUpdate ==
  /\ hook.at = "inbound update"
  /\ \E written \in BOOLEAN :
       WriteState(hook.thread.id, hook.thread.state, written, "llm", "handled")

\* processInboundWithLLM, lines 2155-2211: the thread is read again; in the
\* states CLOSED, CONFIRMED and PAUSED nothing more is done; otherwise the LLM
\* is asked, and when that throws the catch of line 2259 takes over.
HookAnalyse ==
  /\ hook.at = "llm"
  /\ \E analysis \in Analyses, threw \in BOOLEAN :
       hook' =
         IF threads[hook.thread.id].state \in {"CLOSED", "CONFIRMED", "PAUSED"}
           THEN [hook EXCEPT !.at = "handled"]
         ELSE IF threw THEN [hook EXCEPT !.at = "llm failed"]
         ELSE [hook EXCEPT !.at = "llm update", !.analysis = analysis]
  /\ UNCHANGED <<threads, webhookEvents, outbox>>
  /\ HookFrame

\* Lines 2215-2222: the thread gets the state the LLM named; a reply follows
\* when the LLM asked for one.
HookAnalysisUpdate ==
  /\ hook.at = "llm update"
  /\ \E written \in BOOLEAN :
       WriteState(hook.thread.id, hook.analysis.thread_state, written,
                  IF hook.analysis.auto_reply_needed THEN "llm reply" ELSE "handled",
                  "llm failed")

\* Lines 2223-2256: agentMail.sendReply(inbox, thread, html) posts the reply
\* to the thread at AgentMail; no recipient is named and DEV_EMAIL_ROUTING is
\* not read.
HookAutoReply ==
  /\ hook.at = "llm reply"
  /\ \E sent \in BOOLEAN :
       /\ outbox' =
            IF sent
              THEN Append(outbox,
                          Email("reply", threads[hook.thread.id].participant,
                                "Re: " \o threads[hook.thread.id].subject, hook.thread.id,
                                threads[hook.thread.id].recipientEmail, hook.recordId))
            ELSE outbox
       /\ hook' = [hook EXCEPT !.at = IF sent THEN "handled" ELSE "llm failed"]
  /\ UNCHANGED <<threads, webhookEvents>>
  /\ HookFrame

\* Lines 2259-2268: the catch of processInboundWithLLM pauses the thread; an
\* error of that update is dropped.
HookAnalysisFailed ==
  /\ hook.at = "llm failed"
  /\ \E written \in BOOLEAN :
       WriteState(hook.thread.id, "PAUSED", written, "handled", "handled")

\* prisma.webhookEvent.update of lines 2009-2015.
MarkProcessed(events, id) == [events EXCEPT ![id].processed = TRUE]

\* Lines 2008-2025: after the handler has returned the record is marked
\* processed and the reply is { ok: true }; when the update throws the reply
\* is 500.
HookMark ==
  /\ hook.at = "handled"
  /\ \E marked \in BOOLEAN :
       /\ webhookEvents' = IF marked THEN MarkProcessed(webhookEvents, hook.recordId)
                           ELSE webhookEvents
       /\ hook' = [hook EXCEPT !.at = "replied", !.code = IF marked THEN 200 ELSE 500]
  /\ UNCHANGED <<threads, outbox>>
  /\ HookFrame

NextMail ==
  \/ Reconfigure
  \/ PauseThread
  \/ EmailSend
  \/ HookReceive
  \/ HookCreate
  \/ HookDeliveryFind
  \/ HookDeliveryUpdate
  \/ HookInboundFind
  \/ HookInboundUpdate
  \/ HookAnalyse
  \/ HookAnalysisUpdate
  \/ HookAutoReply
  \/ HookAnalysisFailed
  \/ HookMark

\* The scoring entry points are not called; the server has a thread from the
\* time before, started under the DEV_EMAIL_ROUTING it still runs with.
InitMail ==
  /\ user = User(<< >>, << >>, << >>)
  /\ intent = ""
  /\ candidates = << >>
  /\ pc = "idle"
  /\ entry = "none"
  /\ result = << >>
  /\ log = << >>
  /\ prev = << >>
  /\ userSessions = << >>
  /\ files = << >>
  /\ http = HttpIdle
  /\ devRouting \in {"true", "false"}
  /\ threads \in ThreadsStartedUnder(devRouting)
  /\ webhookEvents = << >>
  /\ outbox = << >>
  /\ hook = HookIdle

SpecMail == InitMail /\ [][NextMail]_vars

\* -------------------------------------------------------------------- pausing

\* The automated replies sent in thread t for the webhook record id.
RepliesFor(t, id) ==
  {k \in 1..Len(outbox) :
     outbox[k].kind = "reply" /\ outbox[k].thread = t /\ outbox[k].hookId = id}

\* C21: a thread the user has paused, and that is PAUSED when a webhook event
\* for it comes in, stays PAUSED while and after the event is handled, and no
\* automated reply is sent in it for the event.
PausedStaysPaused ==
  \A t \in hook.pausedBefore :
    hook.event.thread_id = t =>
      /\ threads[t].state = "PAUSED"
      /\ (hook.recordId # 0 => RepliesFor(t, hook.recordId) = {})

\* The part of C21 about replies alone.
PausedGetsNoReply ==
  \A t \in hook.pausedBefore :
    (hook.event.thread_id = t /\ hook.recordId # 0) => RepliesFor(t, hook.recordId) = {}

\* ------------------------------------------------------- development routing

\* C22: every email sent while DEV_EMAIL_ROUTING is 'true', outreach or
\* automated reply, goes to the development address and not to the
\* candidate's, and the subject of the outreach starts with [DEV].
DevRoutingHolds ==
  \A k \in 1..Len(outbox) :
    outbox[k].dev = "true" =>
      /\ outbox[k].to = DevEmail
      /\ outbox[k].to # outbox[k].candidate
      /\ outbox[k].kind = "outreach" => StartsWith(outbox[k].subject, "[DEV]")

\* The part of C22 about the outreach of POST /email/send alone.
OutreachIsRouted ==
  \A k \in 1..Len(outbox) :
    (outbox[k].dev = "true" /\ outbox[k].kind = "outreach") =>
      /\ outbox[k].to = DevEmail
      /\ outbox[k].to # outbox[k].candidate
      /\ StartsWith(outbox[k].subject, "[DEV]")

\* -------------------------------------------------------------- webhook audit

\* The handler for the event's type is running.
InHandler ==
  hook.at \in {"delivery", "delivery update", "inbound", "inbound update", "llm",
               "llm update", "llm reply", "llm failed"}

\* The request in hand has its record, the last of the table, and no request
\* has more than one.
HasItsRecord ==
  /\ hook.recordId = Len(webhookEvents)
  /\ hook.recordId # 0
  /\ Len(webhookEvents) <= hook.no

AuditOrder ==
  /\ (InHandler \/ hook.at = "handled") =>
       HasItsRecord /\ ~webhookEvents[hook.recordId].processed
  /\ (hook.recordId # 0 /\ webhookEvents[hook.recordId].processed) =>
       hook.at = "replied" /\ hook.code = 200
  /\ (hook.at = "replied" /\ hook.code = 200) =>
       HasItsRecord /\ webhookEvents[hook.recordId].processed
  /\ (hook.at = "replied" /\ hook.code # 200) =>
       /\ hook.code = 500
       /\ Len(webhookEvents) <= hook.no
       /\ hook.recordId # 0 => ~webhookEvents[hook.recordId].processed
  /\ CaseOf(hook.event.type) = "handled" => ~InHandler

\* C30: a webhook request has exactly one record, created with processed =
\* false before a handler runs; the record is marked processed only after the
\* handler has returned, and then the reply is { ok: true }; when the create
\* or the marking fails the reply is 500 and the record, if any, stays
\* unprocessed; and no step taken for an event of unknown type changes a
\* thread.
WebhookAudit ==
  /\ []AuditOrder
  /\ [][(hook' # hook /\ hook'.at # "idle" /\ CaseOf(hook'.event.type) = "handled")
          => threads' = threads]_vars

\* An event of unknown type has been recorded, marked processed and answered
\* with { ok: true }, for a thread the user has paused in the meantime.
WebhookAuditWitness ==
  /\ hook.at = "replied"
  /\ hook.code = 200
  /\ hook.event.type = "message.clicked"
  /\ webhookEvents[hook.recordId] =
       [id |-> hook.recordId, type |-> "message.clicked", processed |-> TRUE]
  /\ threads[ThreadId].pausedByUser

\* The marking has failed after the inbound handler sent a reply: 500, and
\* the record is unprocessed.
WebhookAuditFailedWitness ==
  /\ hook.at = "replied"
  /\ hook.code = 500
  /\ hook.recordId # 0
  /\ ~webhookEvents[hook.recordId].processed
  /\ RepliesFor(ThreadId, hook.recordId) # {}

====
